---------------------------- MODULE Spec2Model ----------------------------
(***************************************************************************)
(* Model of the response parser (src/parser.py), of the prompt builders    *)
(* (src/prompts.py) and of the application (src/app.py) of the Vibe Code   *)
(* Editor.                                                                 *)
(*                                                                         *)
(* A Python str is modelled as a sequence of characters, each character a *)
(* one-character string (the backquote, which a TLA+ string cannot hold,   *)
(* is the value Backquote), so that slicing, searching, trimming and the   *)
(* regular expressions of the parser are computed character by character.  *)
(***************************************************************************)
EXTENDS Integers, Sequences, FiniteSets, TLC

\* pc: where the caller stands; fn, args, ret: the function last called, its
\* argument and what it returned; prior: the call before that one, if any.
VARIABLES pc, fn, args, ret, prior

vars == <<pc, fn, args, ret, prior>>

(***************************************************************************)
(* Characters and str methods                                              *)
(***************************************************************************)

\* The characters str.strip() removes (those that can occur in the inputs).
Whitespace == {" ", "\n", "\t", "\r", "\f"}

UpperCase == <<"A", "B", "C", "D", "E", "F", "G", "H", "I", "J", "K", "L", "M",
               "N", "O", "P", "Q", "R", "S", "T", "U", "V", "W", "X", "Y", "Z">>

LowerCase == <<"a", "b", "c", "d", "e", "f", "g", "h", "i", "j", "k", "l", "m",
               "n", "o", "p", "q", "r", "s", "t", "u", "v", "w", "x", "y", "z">>

Digits == {"0", "1", "2", "3", "4", "5", "6", "7", "8", "9"}

\* The characters the regular-expression class \w matches.
WordChars == {UpperCase[i] : i \in 1..26} \cup {LowerCase[i] : i \in 1..26}
             \cup Digits \cup {"_"}

Min(S) == CHOOSE x \in S : \A y \in S : x <= y

Max(S) == CHOOSE x \in S : \A y \in S : x >= y

\* s[i:] of Python, with i counted from 1.
From(s, i) == SubSeq(s, i, Len(s))

\* str.startswith(pat, i-1): pat occurs in s at position i.
IsAt(s, pat, i) ==
    /\ i >= 1
    /\ i + Len(pat) - 1 <= Len(s)
    /\ \A k \in 1..Len(pat) : s[i + k - 1] = pat[k]

\* pat in s
Contains(s, pat) == \E i \in 1..(Len(s) + 1) : IsAt(s, pat, i)

\* str.lower() on one character.
LowerChar(c) ==
    IF \E i \in 1..26 : UpperCase[i] = c
    THEN LowerCase[CHOOSE i \in 1..26 : UpperCase[i] = c]
    ELSE c

\* str.lower()
Lower(s) == [i \in 1..Len(s) |-> LowerChar(s[i])]

\* str.strip()
Strip(s) ==
    LET keep == {i \in 1..Len(s) : s[i] \notin Whitespace}
    IN  IF keep = {} THEN <<>> ELSE SubSeq(s, Min(keep), Max(keep))

\* str.split(sep) for a non-empty separator: cut at each occurrence, found
\* left to right, occurrences not overlapping.
RECURSIVE Split(_, _)
Split(s, sep) ==
    LET occ == {i \in 1..Len(s) : IsAt(s, sep, i)}
    IN  IF occ = {} THEN <<s>>
        ELSE LET i == Min(occ)
             IN  <<SubSeq(s, 1, i - 1)>> \o Split(From(s, i + Len(sep)), sep)

\* bool(x) of a str
Bool(s) == s # <<>>

(***************************************************************************)
(* The fence pattern  ```(?:\w+)?\n?(.*?)\n?```  under re.DOTALL           *)
(***************************************************************************)

\* The backquote character.
Backquote == "BQ"

Fence == <<Backquote, Backquote, Backquote>>

NoMatch == [matched |-> FALSE]

\* Number of consecutive \w characters of s from position p on.
WordRun(s, p) ==
    LET stop == {k \in p..(Len(s) + 1) : k = Len(s) + 1 \/ s[k] \notin WordChars}
    IN  Min(stop) - p

\* As LazyGroup, for the pattern that also lets the end of the text close a
\* block:  (.*?)\n?(?:```|$)
LazyGroupOrEnd(s, p) ==
    LET ends == {e \in p..(Len(s) + 1) :
                    \/ IsAt(s, <<"\n">> \o Fence, e)
                    \/ IsAt(s, Fence, e)
                    \/ e = Len(s) + 1}
    IN  LET e  == Min(ends)
            nl == IF IsAt(s, <<"\n">> \o Fence, e) THEN 1 ELSE 0
        IN  [matched |-> TRUE, group |-> SubSeq(s, p, e - 1),
             next |-> e + nl + Len(Fence)]

\* (.*?)\n?``` from position p: the lazy group grows one character at a time
\* and at each length the optional newline is tried before it is skipped.
LazyGroup(s, p) ==
    LET ends == {e \in p..(Len(s) + 1) :
                    \/ IsAt(s, <<"\n">> \o Fence, e)
                    \/ IsAt(s, Fence, e)}
    IN  IF ends = {} THEN NoMatch
        ELSE LET e  == Min(ends)
                 nl == IF IsAt(s, <<"\n">> \o Fence, e) THEN 1 ELSE 0
             IN  [matched |-> TRUE, group |-> SubSeq(s, p, e - 1),
                  next |-> e + nl + Len(Fence)]

\* \n?(.*?)\n?``` from position p: the optional newline is taken when it is
\* there, and given back when the rest does not match.
AfterTag(s, p) ==
    IF IsAt(s, <<"\n">>, p) /\ LazyGroup(s, p + 1).matched
    THEN LazyGroup(s, p + 1)
    ELSE LazyGroup(s, p)

\* (?:\w+)? and the rest, the tag being t characters long: the longest tag is
\* tried first, then each shorter one, then none.
RECURSIVE TagThenRest(_, _, _)
TagThenRest(s, p, t) ==
    IF AfterTag(s, p + t).matched THEN AfterTag(s, p + t)
    ELSE IF t = 0 THEN NoMatch
    ELSE TagThenRest(s, p, t - 1)

\* re.match of the fence pattern at position i: where the match ends and
\* what group 1 captured.
CodePatternAt(s, i) ==
    IF ~IsAt(s, Fence, i) THEN NoMatch
    ELSE LET p == i + Len(Fence)
             m == TagThenRest(s, p, WordRun(s, p))
         IN  IF m.matched
             THEN [matched |-> TRUE, start |-> i, group |-> m.group, next |-> m.next]
             ELSE NoMatch

\* The non-overlapping matches of the fence pattern in s, left to right from
\* position i (the scan of re.findall and re.sub).
RECURSIVE CodeMatches(_, _)
CodeMatches(s, i) ==
    IF i > Len(s) THEN <<>>
    ELSE LET m == CodePatternAt(s, i)
         IN  IF m.matched THEN <<m>> \o CodeMatches(s, m.next)
             ELSE CodeMatches(s, i + 1)

\* re.findall(code_pattern, s, re.DOTALL | re.IGNORECASE)
FindAllCode(s) ==
    LET ms == CodeMatches(s, 1) IN [k \in 1..Len(ms) |-> ms[k].group]

\* re.sub(code_pattern, repl, s, flags=re.DOTALL | re.IGNORECASE)
RECURSIVE SubFrom(_, _, _, _, _)
SubFrom(s, ms, k, i, repl) ==
    IF k > Len(ms) THEN From(s, i)
    ELSE SubSeq(s, i, ms[k].start - 1) \o repl
         \o SubFrom(s, ms, k + 1, ms[k].next, repl)

SubCode(s, repl) == SubFrom(s, CodeMatches(s, 1), 1, 1, repl)

\* As MaxByLen, the last element of greatest length.
MaxByLenLast(seq) ==
    LET best == Max({Len(seq[k]) : k \in 1..Len(seq)})
    IN  seq[Max({k \in 1..Len(seq) : Len(seq[k]) = best})]

\* max(seq, key=len): the first element of greatest length.
MaxByLen(seq) ==
    LET best == Max({Len(seq[k]) : k \in 1..Len(seq)})
    IN  seq[Min({k \in 1..Len(seq) : Len(seq[k]) = best})]

(***************************************************************************)
(* ResponseParser                                                          *)
(***************************************************************************)

\* As parse_code_generation, the explanation left as re.sub returns it.
parse_code_generation_untrimmed(response) ==
    LET code_matches == FindAllCode(response)
        main_code    == IF code_matches # <<>>
                        THEN Strip(MaxByLen(code_matches)) ELSE <<>>
        explanation  == SubCode(response, <<>>)
    IN  [code |-> main_code,
         explanation |-> explanation,
         has_code |-> Bool(main_code),
         has_explanation |-> Bool(explanation)]

parse_code_generation(response) ==
    LET code_matches == FindAllCode(response)
        main_code    == IF code_matches # <<>>
                        THEN Strip(MaxByLen(code_matches)) ELSE <<>>
        explanation  == Strip(SubCode(response, <<>>))
    IN  [code |-> main_code,
         explanation |-> explanation,
         has_code |-> Bool(main_code),
         has_explanation |-> Bool(explanation)]

explanation_sections ==
    << <<"e", "x", "p", "l", "a", "n", "a", "t", "i", "o", "n">>,
       <<"o", "v", "e", "r", "v", "i", "e", "w">>,
       <<"s", "u", "m", "m", "a", "r", "y">>,
       <<"w", "h", "a", "t", " ", "t", "h", "i", "s", " ", "c", "o", "d", "e",
         " ", "d", "o", "e", "s">>,
       <<"h", "o", "w", " ", "i", "t", " ", "w", "o", "r", "k", "s">> >>

\* As StripNonEmpty, the empty paragraphs kept: [p.strip() for p in parts]
RECURSIVE StripAll(_)
StripAll(parts) ==
    IF parts = <<>> THEN <<>>
    ELSE <<Strip(Head(parts))>> \o StripAll(Tail(parts))

\* [p.strip() for p in text.split('\n\n') if p.strip()]
RECURSIVE StripNonEmpty(_)
StripNonEmpty(parts) ==
    IF parts = <<>> THEN <<>>
    ELSE IF Strip(Head(parts)) # <<>>
         THEN <<Strip(Head(parts))>> \o StripNonEmpty(Tail(parts))
         ELSE StripNonEmpty(Tail(parts))

Paragraphs(text) == StripNonEmpty(Split(text, <<"\n", "\n">>))

\* any(section in paragraph.lower() for section in self.explanation_sections)
LooksLikeOverview(paragraph) ==
    \E k \in 1..Len(explanation_sections) :
        Contains(Lower(paragraph), explanation_sections[k])

\* One turn of the loop over the paragraphs: acc is (overview, details).
ClassifyStep(acc, paragraph) ==
    IF LooksLikeOverview(paragraph)
    THEN IF acc.overview = <<>>
         THEN [acc EXCEPT !.overview = paragraph]
         ELSE acc
    ELSE [acc EXCEPT !.details = Append(@, paragraph)]

RECURSIVE Classify(_, _)
Classify(acc, paragraphs) ==
    IF paragraphs = <<>> THEN acc
    ELSE Classify(ClassifyStep(acc, Head(paragraphs)), Tail(paragraphs))

parse_explanation(response) ==
    LET paragraphs == Paragraphs(response)
        acc        == Classify([overview |-> <<>>, details |-> <<>>], paragraphs)
    IN  [overview |-> acc.overview,
         details |-> acc.details,
         full_explanation |-> response,
         paragraph_count |-> Len(paragraphs)]

\* The text that takes the place of a code block in a debug explanation.
CodeBlockRemoved ==
    <<"\n", "[", "C", "O", "D", "E", " ", "B", "L", "O", "C", "K", " ",
      "R", "E", "M", "O", "V", "E", "D", "]", "\n">>

\* As Last, the first element: code_matches[0]
First(seq) == seq[1]

\* code_matches[-1]
Last(seq) == seq[Len(seq)]

parse_debug_response(response) ==
    LET code_matches   == FindAllCode(response)
        corrected_code == IF code_matches # <<>>
                          THEN Strip(Last(code_matches)) ELSE <<>>
        explanation    == Strip(SubCode(response, CodeBlockRemoved))
        paragraphs     == Paragraphs(explanation)
    IN  [problem_description |-> IF paragraphs # <<>> THEN paragraphs[1] ELSE <<>>,
         corrected_code |-> corrected_code,
         full_explanation |-> explanation,
         has_corrected_code |-> Bool(corrected_code),
         solution_steps |-> paragraphs]

\* Length of the run of newlines of s that starts at position i.
NewlineRun(s, i) ==
    LET stop == {k \in i..(Len(s) + 1) : k = Len(s) + 1 \/ s[k] # "\n"}
    IN  Min(stop) - i

\* As CollapseNewlines, for the pattern \n{3}: each three newlines become two.
RECURSIVE CollapseThreeNewlines(_)
CollapseThreeNewlines(s) ==
    IF s = <<>> THEN <<>>
    ELSE IF NewlineRun(s, 1) >= 3
         THEN <<"\n", "\n">> \o CollapseThreeNewlines(From(s, 4))
         ELSE <<Head(s)>> \o CollapseThreeNewlines(Tail(s))

\* re.sub(r'\n{3,}', '\n\n', s)
RECURSIVE CollapseNewlines(_)
CollapseNewlines(s) ==
    IF s = <<>> THEN <<>>
    ELSE IF NewlineRun(s, 1) >= 3
         THEN <<"\n", "\n">> \o CollapseNewlines(From(s, NewlineRun(s, 1) + 1))
         ELSE <<Head(s)>> \o CollapseNewlines(Tail(s))

\* re.match of  ```(\w+)\n\n+  at position 1 of s: the length of the tag and
\* of the run of newlines, or no match. A tag shorter than the run of word
\* characters is followed by a word character, never by the newline.
TaggedFenceAt(s) ==
    LET t == WordRun(s, Len(Fence) + 1)
        n == NewlineRun(s, Len(Fence) + t + 1)
    IN  IF IsAt(s, Fence, 1) /\ t >= 1 /\ n >= 2
        THEN [matched |-> TRUE, tag |-> t, newlines |-> n]
        ELSE NoMatch

\* re.sub(r'```(\w+)\n\n+', r'```\1\n', s)
RECURSIVE FixFences(_)
FixFences(s) ==
    IF s = <<>> THEN <<>>
    ELSE LET m == TaggedFenceAt(s)
         IN  IF m.matched
             THEN SubSeq(s, 1, Len(Fence) + m.tag) \o <<"\n">>
                  \o FixFences(From(s, Len(Fence) + m.tag + m.newlines + 1))
             ELSE <<Head(s)>> \o FixFences(Tail(s))

clean_response(response) == FixFences(Strip(CollapseNewlines(response)))

(***************************************************************************)
(* Inputs                                                                  *)
(***************************************************************************)

\* Longest response, counted in pieces, handed to parse_code_generation.
MaxPieces == 6

FencePieces == {Fence, <<"a">>, <<"=">>, <<"\n">>, <<" ">>}


RECURSIVE Concat(_)
Concat(ps) == IF ps = <<>> THEN <<>> ELSE Head(ps) \o Concat(Tail(ps))

\* Every concatenation of at most n pieces.
Texts(pieces, n) ==
    {Concat(ps) : ps \in UNION {[1..k -> pieces] : k \in 0..n}}

FencedResponses == Texts(FencePieces, MaxPieces)

\* Longest response, counted in pieces, handed to parse_debug_response.
MaxDebugPieces == 5

DebugPieces == {Fence, <<Backquote>>, <<"a">>, <<"=">>, <<"\n">>, <<" ">>}

DebugResponses == Texts(DebugPieces, MaxDebugPieces)

\* Longest response, counted in pieces, handed to parse_explanation.
MaxParagraphPieces == 5

ParagraphPieces ==
    {<<"O", "v", "e", "r", "v", "i", "e", "w", ":">>, <<"s", "u", "m", "m", "a", "r", "y">>,
     <<"x">>, <<"\n">>, <<"\n", "\n">>}

ExplanationResponses == Texts(ParagraphPieces, MaxParagraphPieces)

\* Longest response, counted in pieces, handed to clean_response.
MaxCleanPieces == 7

CleanPieces == {Fence, <<"a">>, <<"\n">>, <<" ">>}

UncleanResponses == Texts(CleanPieces, MaxCleanPieces)

(***************************************************************************)
(* The parser applied to a response                                        *)
(***************************************************************************)

Init ==
    /\ pc = "idle"
    /\ fn = "none"
    /\ args = <<>>
    /\ ret = <<>>
    /\ prior = <<>>

Return(name, argument, value) ==
    /\ fn' = name
    /\ args' = argument
    /\ ret' = value
    /\ pc' = "returned"
    /\ prior' = <<>>

ParseCodeGeneration ==
    /\ pc = "idle"
    /\ \E response \in FencedResponses :
          Return("parse_code_generation", response, parse_code_generation(response))

ParseExplanation ==
    /\ pc = "idle"
    /\ \E response \in ExplanationResponses :
          Return("parse_explanation", response, parse_explanation(response))

ParseDebugResponse ==
    /\ pc = "idle"
    /\ \E response \in DebugResponses :
          Return("parse_debug_response", response, parse_debug_response(response))

CleanResponse ==
    /\ pc = "idle"
    /\ \E response \in UncleanResponses :
          Return("clean_response", response, clean_response(response))

\* clean_response called on a response it has cleaned already.
CleanResponseAgain ==
    /\ pc = "returned"
    /\ fn = "clean_response"
    /\ fn' = fn
    /\ args' = ret
    /\ ret' = clean_response(ret)
    /\ pc' = "returned again"
    /\ prior' = [args |-> args, ret |-> ret]

NextParser ==
    \/ ParseCodeGeneration
    \/ ParseExplanation
    \/ ParseDebugResponse
    \/ CleanResponse
    \/ CleanResponseAgain

SpecParser == Init /\ [][NextParser]_vars

(***************************************************************************)
(* The prompt builders (src/prompts.py)                                    *)
(*                                                                         *)
(* A text of the templates is a sequence of items: the characters of the   *)
(* values written into it, and each run of literal text as one item.       *)
(***************************************************************************)

\* What a call gives back: a str, None, or the exception that ended it.
Str(text) == [type |-> "str", value |-> text]

None == [type |-> "NoneType"]

Raised(exception) == [type |-> exception]

\* The statements at the top level of prompts.py, in order: the three
\* definitions, then the branch on skill_level and the return that follow
\* the body of get_debug_prompt at the left margin, then the lines of prose
\* that end the file.
prompts_py ==
    <<[kind |-> "def", name |-> "get_code_generation_prompt"],
      [kind |-> "def", name |-> "get_explanation_prompt"],
      [kind |-> "def", name |-> "get_debug_prompt"],
      [kind |-> "if", name |-> "skill_level"],
      [kind |-> "return", name |-> "base_prompt + specific_prompt"],
      [kind |-> "prose", name |-> "After this fix"]>>

\* Python compiles a module before it runs any of it: a return outside a
\* function, or a line that is no statement, is a SyntaxError.
Compiles(module) ==
    \A k \in 1..Len(module) : module[k].kind \notin {"return", "prose"}

\* from prompts import name; name(...): the value the function returns, or
\* the error of the import.
CallPrompts(value) ==
    IF Compiles(prompts_py) THEN value ELSE Raised("SyntaxError")

generation_base_prompt(task, language, skill_level) ==
    <<"\nYou are a ">> \o Lower(skill_level)
    \o <<"-level programming tutor. \n", "Generate ">> \o language
    \o <<" code for: \"">> \o task
    \o <<"\"\n", "\n", "IMPORTANT RULES:\n", "- Write code appropriate for ">>
    \o skill_level
    \o <<" level programmers\n",
         "- Include comments suitable for this skill level\n",
         "- Use coding style typical for ">>
    \o skill_level \o <<" developers\n">>

Beginner == <<"B", "e", "g", "i", "n", "n", "e", "r">>

Intermediate == <<"I", "n", "t", "e", "r", "m", "e", "d", "i", "a", "t", "e">>

Advanced == <<"A", "d", "v", "a", "n", "c", "e", "d">>

BeginnerRequirements ==
    <<"\n",
      "BEGINNER REQUIREMENTS:\n",
      "- Use very simple, readable variable names\n",
      "- Add comments explaining EVERY line of code\n",
      "- Break complex operations into multiple simple steps\n",
      "- Use basic language features only\n",
      "- Include example usage\n",
      "- Explain what each part does in plain English\n">>

IntermediateRequirements ==
    <<"\n",
      "INTERMEDIATE REQUIREMENTS:\n",
      "- Use clean, meaningful variable and function names\n",
      "- Add comments for complex logic only\n",
      "- Follow standard coding conventions\n",
      "- Use appropriate data structures\n",
      "- Include error handling where relevant\n",
      "- Write modular, reusable code\n">>

AdvancedRequirements ==
    <<"\n",
      "ADVANCED REQUIREMENTS:\n",
      "- Write optimized, efficient code\n",
      "- Use advanced language features appropriately\n",
      "- Minimal but meaningful comments\n",
      "- Consider edge cases and performance\n",
      "- Apply relevant design patterns\n",
      "- Focus on maintainability and scalability\n">>

\* if skill_level == "Beginner": ... elif skill_level == "Intermediate": ...
\* else: ...
generation_specific_prompt(skill_level) ==
    IF skill_level = Beginner THEN BeginnerRequirements
    ELSE IF skill_level = Intermediate THEN IntermediateRequirements
    ELSE AdvancedRequirements

get_code_generation_prompt(task, language, skill_level) ==
    Str(generation_base_prompt(task, language, skill_level)
        \o generation_specific_prompt(skill_level))

ErrorLabel == "\nError message: "

\* f"\nError message: {error}" if error.strip() else ""
error_section(error) ==
    IF Strip(error) # <<>> THEN <<ErrorLabel>> \o error ELSE <<>>

debug_base_prompt(code, error, language, skill_level) ==
    <<"\nYou are a ">> \o Lower(skill_level)
    \o <<"-level programming debugging tutor.\n", "\n", "User Code:\n">>
    \o Fence \o language \o <<"\n">> \o code \o <<"\n">>
    \o error_section(error)
    \o <<"\n", "\n",
         "<PROBLEM> Explain what is wrong in simple terms. </PROBLEM>\n", "\n",
         "<CORRECTED_CODE>\n",
         "Provide corrected code only inside code block.\n",
         "</CORRECTED_CODE>\n", "\n",
         "<EXPLANATION> Explain the fix in simple terms. </EXPLANATION>\n", "\n",
         "DEBUGGING REQUIREMENTS:\n">>

\* The body of get_debug_prompt: it builds base_prompt and ends there, with
\* no return statement.
get_debug_prompt(code, error, language, skill_level) ==
    LET base_prompt == debug_base_prompt(code, error, language, skill_level)
    IN  None

BeginnerDebugging ==
    <<"\n",
      "1.Identify what is wrong (in simple terms)\n",
      "\n",
      "2.Explain WHY this error happens (like explaining to a friend)\n",
      "\n",
      "3.Show the corrected code with comments\n",
      "\n",
      "4.Explain how to avoid this mistake in the future\n",
      "\n",
      "5.Provide a simple test case to verify the fix\n",
      "\n",
      "Use beginner-friendly language and be very patient in your explanation.\n">>

IntermediateDebugging ==
    <<"\n",
      "1.Identify the root cause of the issue\n",
      "\n",
      "2.Explain the underlying programming concept involved\n",
      "\n",
      "3.Provide the corrected code with good practices\n",
      "\n",
      "4.Suggest debugging techniques for similar issues\n",
      "\n",
      "5.Mention related concepts to be aware of\n",
      "Assume familiarity with basic programming but explain advanced concepts.\n">>

AdvancedDebugging ==
    <<"\n",
      "1.Analyze the technical root cause\n",
      "\n",
      "2.Discuss performance/design implications of the bug\n",
      "\n",
      "3.Provide an optimized, robust solution\n",
      "\n",
      "4.Suggest refactoring opportunities\n",
      "\n",
      "5.Recommend debugging tools/techniques for production\n",
      "Focus on architectural and performance considerations.\n">>

\* The branch on skill_level written after get_debug_prompt, at the top
\* level of the module: the numbered instructions of each skill level.
debug_specific_prompt(skill_level) ==
    IF skill_level = Beginner THEN BeginnerDebugging
    ELSE IF skill_level = Intermediate THEN IntermediateDebugging
    ELSE AdvancedDebugging

(***************************************************************************)
(* The prompt builders applied to their arguments                          *)
(***************************************************************************)

Tasks == {<<>>, <<"s", "o", "r", "t">>, <<"r", "e", "v", "e", "r", "s", "e", " ", "a", "n", " ", "a", "r", "r", "a", "y">>}

\* get_supported_languages()
Languages == {<<"J", "a", "v", "a">>, <<"P", "y", "t", "h", "o", "n">>, <<"J", "a", "v", "a", "S", "c", "r", "i", "p", "t">>, <<"C", "+", "+">>}

SkillLevels == {Beginner, Intermediate, Advanced, <<>>, Lower(Beginner)}

Codes == {<<"x">>, <<"p", "r", "i", "n", "t", "(", "a", "[", "3", "]", ")">>}

Errors == {<<>>, <<" ">>, <<"\n", " ">>, <<"I", "n", "d", "e", "x", "E", "r", "r", "o", "r">>}

GetCodeGenerationPrompt ==
    /\ pc = "idle"
    /\ \E task \in Tasks, language \in Languages, skill_level \in SkillLevels :
          Return("get_code_generation_prompt",
                 [task |-> task, language |-> language, skill_level |-> skill_level],
                 CallPrompts(get_code_generation_prompt(task, language, skill_level)))

GetDebugPrompt ==
    /\ pc = "idle"
    /\ \E code \in Codes, error \in Errors, language \in Languages,
          skill_level \in SkillLevels :
          Return("get_debug_prompt",
                 [code |-> code, error |-> error, language |-> language,
                  skill_level |-> skill_level],
                 CallPrompts(get_debug_prompt(code, error, language, skill_level)))

NextPrompts ==
    \/ GetCodeGenerationPrompt
    \/ GetDebugPrompt

SpecPrompts == Init /\ [][NextPrompts]_vars

(***************************************************************************)
(* The application (src/app.py): one run of the script                     *)
(*                                                                         *)
(* The state is that of a process in which the imports at the head of      *)
(* app.py have been resolved and VibeCodeEditor() has been constructed:    *)
(* the imported names stand for the function bodies.  In the application   *)
(* fn is the render routine run() dispatched to, args the selections and   *)
(* the texts typed by the user, prior the calls the run has made so far,   *)
(* oldest first, and ret what the last of them returned.  Calls that only  *)
(* draw on the page (st.header, st.error, st.code, ...) are left out.      *)
(***************************************************************************)

\* The pictographs that open three of the options of the mode radio.
Wrench == "WRENCH"

Books == "BOOKS"

Bug == "BUG"

\* The options of st.sidebar.radio in render_mode_selection.
ModeOptions ==
    {<<Wrench, " ", "G", "e", "n", "e", "r", "a", "t", "e", " ", "C", "o", "d", "e">>,
     <<Books, " ", "E", "x", "p", "l", "a", "i", "n", " ", "C", "o", "d", "e">>,
     <<Bug, " ", "D", "e", "b", "u", "g", " ", "C", "o", "d", "e">>,
     <<"o", "p", "t", "i", "m", "i", "z", "e", " ", "c", "o", "d", "e">>}

\* str.split(sep, 1): cut at the first occurrence of sep only.
SplitOnce(s, sep) ==
    LET occ == {i \in 1..Len(s) : IsAt(s, sep, i)}
    IN  IF occ = {} THEN <<s>>
        ELSE <<SubSeq(s, 1, Min(occ) - 1), From(s, Min(occ) + Len(sep))>>

\* mode.split(" ", 1)[1] of the option chosen.
render_mode_selection(option) == SplitOnce(option, <<" ">>)[2]

GenerateCode == <<"G", "e", "n", "e", "r", "a", "t", "e", " ", "C", "o", "d", "e">>

ExplainCode == <<"E", "x", "p", "l", "a", "i", "n", " ", "C", "o", "d", "e">>

DebugCode == <<"D", "e", "b", "u", "g", " ", "C", "o", "d", "e">>

\* The options of st.sidebar.selectbox in render_skill_selection.
SkillOptions == {Beginner, Intermediate, Advanced}

validate_user_input(task, language, skill_level) ==
    LET errors ==
            (IF Strip(task) = <<>>
             THEN <<"Task description cannot be empty">> ELSE <<>>)
            \o (IF Len(Strip(task)) < 5
                THEN <<"Task description too short (minimum 5 characters)">>
                ELSE <<>>)
            \o (IF language \notin Languages
                THEN <<"Unsupported programming language">> ELSE <<>>)
            \o (IF skill_level \notin {Beginner, Intermediate, Advanced}
                THEN <<"Invalid skill level">> ELSE <<>>)
    IN  [is_valid |-> Len(errors) = 0, errors |-> errors]

explanation_base_prompt(code, language, skill_level) ==
    <<"\nYou are a ">> \o Lower(skill_level)
    \o <<"-level programming tutor.\n", "Explain this ">> \o language
    \o <<" code in a way that a ">> \o skill_level
    \o <<" programmer would understand:\n", "\n">> \o code
    \o <<"\n", "\n", "EXPLANATION REQUIREMENTS:\n">>

BeginnerExplanation ==
    <<"\n",
      "- Explain every single line of code\n",
      "- Use simple, non-technical language\n",
      "- Define any programming terms you use\n",
      "- Show what the output would look like\n",
      "- Explain WHY each step is necessary\n",
      "- Compare to real-world analogies where helpful\n">>

IntermediateExplanation ==
    <<"\n",
      "- Explain the overall logic and approach\n",
      "- Highlight important programming concepts used\n",
      "- Explain complex parts in detail\n",
      "- Mention alternative approaches briefly\n",
      "- Point out good coding practices demonstrated\n">>

AdvancedExplanation ==
    <<"\n",
      "- Focus on algorithm complexity and efficiency\n",
      "- Discuss design patterns or architectural decisions\n",
      "- Analyze performance implications\n",
      "- Suggest potential optimizations\n",
      "- Compare with alternative implementations\n">>

explanation_specific_prompt(skill_level) ==
    IF skill_level = Beginner THEN BeginnerExplanation
    ELSE IF skill_level = Intermediate THEN IntermediateExplanation
    ELSE AdvancedExplanation

get_explanation_prompt(code, language, skill_level) ==
    Str(explanation_base_prompt(code, language, skill_level)
        \o explanation_specific_prompt(skill_level))

\* As Truthy, for the test  response is not None.
IsNotNone(response) == response # None

\* if response: of a value call_llm returned.
Truthy(response) == response.type = "str" /\ Bool(response.value)

\* One call the run has made: the function, its arguments, what came back.
Call(name, arguments, value) == [fn |-> name, args |-> arguments, ret |-> value]

\* What the text areas may hold when a button is pressed.
AppTasks == Tasks \cup {<<" ", " ">>, <<" ", "s", "o", "r", "t", "\n">>}

AppCodes == Codes \cup {<<>>, <<" ", "\n">>}

\* What the provider may answer: message.content is a text, or None.
MaxContentPieces == 3

ContentPieces == {Fence, <<"=">>, <<"\n">>}

Contents == {Str(text) : text \in Texts(ContentPieces, MaxContentPieces)} \cup {None}

\* The body of render_generate_mode once the widgets are drawn: nothing
\* unless the button is pressed; then the input check, and when it passes
\* the prompt, with which call_llm is entered.
render_generate_mode(mode, skill_level) ==
    \E task \in AppTasks, language \in Languages, clicked \in BOOLEAN :
        LET validation == validate_user_input(task, language, skill_level)
            prompt     == get_code_generation_prompt(task, language, skill_level)
            checked    == Call("validate_user_input",
                               <<task, language, skill_level>>, validation)
        IN  /\ fn' = "render_generate_mode"
            /\ args' = [mode |-> mode, skill_level |-> skill_level,
                        text |-> task, language |-> language,
                        clicked |-> clicked]
            /\ IF ~clicked
               THEN pc' = "done" /\ ret' = None /\ prior' = <<>>
               ELSE IF ~validation.is_valid
               THEN pc' = "done" /\ ret' = validation /\ prior' = <<checked>>
               ELSE /\ pc' = "calling"
                    /\ ret' = prompt
                    /\ prior' = <<checked,
                                  Call("get_code_generation_prompt",
                                       <<task, language, skill_level>>, prompt)>>

render_explain_mode(mode, skill_level) ==
    \E code \in AppCodes, language \in Languages, clicked \in BOOLEAN :
        LET prompt == get_explanation_prompt(code, language, skill_level)
        IN  /\ fn' = "render_explain_mode"
            /\ args' = [mode |-> mode, skill_level |-> skill_level,
                        text |-> code, language |-> language,
                        clicked |-> clicked]
            /\ IF ~clicked \/ Strip(code) = <<>>
               THEN pc' = "done" /\ ret' = None /\ prior' = <<>>
               ELSE /\ pc' = "calling"
                    /\ ret' = prompt
                    /\ prior' = <<Call("get_explanation_prompt",
                                       <<code, language, skill_level>>, prompt)>>

render_debug_mode(mode, skill_level) ==
    \E code \in AppCodes, error_msg \in Errors, language \in Languages,
       clicked \in BOOLEAN :
        LET prompt == get_debug_prompt(code, error_msg, language, skill_level)
        IN  /\ fn' = "render_debug_mode"
            /\ args' = [mode |-> mode, skill_level |-> skill_level,
                        text |-> code, error_msg |-> error_msg,
                        language |-> language, clicked |-> clicked]
            /\ IF ~clicked \/ Strip(code) = <<>>
               THEN pc' = "done" /\ ret' = None /\ prior' = <<>>
               ELSE /\ pc' = "calling"
                    /\ ret' = prompt
                    /\ prior' = <<Call("get_debug_prompt",
                                       <<code, error_msg, language, skill_level>>,
                                       prompt)>>

\* run(): the selections of the sidebar, then the branch on the mode; a mode
\* that no branch names leaves run() with no routine called.
Run ==
    /\ pc = "idle"
    /\ \E option \in ModeOptions, skill_level \in SkillOptions :
          LET mode == render_mode_selection(option)
          IN  IF mode = GenerateCode THEN render_generate_mode(mode, skill_level)
              ELSE IF mode = ExplainCode THEN render_explain_mode(mode, skill_level)
              ELSE IF mode = DebugCode THEN render_debug_mode(mode, skill_level)
              ELSE /\ pc' = "done"
                   /\ fn' = "none"
                   /\ args' = [mode |-> mode, skill_level |-> skill_level]
                   /\ ret' = None
                   /\ prior' = <<>>

\* As call_llm, with the request sent once more when it fails.
call_llm_retrying(prompt, outcome) ==
    IF outcome.type \in {"str", "NoneType"}
    THEN <<Call("create", prompt, outcome), Call("call_llm", prompt, outcome)>>
    ELSE <<Call("create", prompt, outcome), Call("create", prompt, outcome),
           Call("call_llm", prompt, Str(<<>>))>>

\* call_llm(prompt): one chat.completions.create with the prompt as the
\* content of the message; its message.content is returned, and "" when
\* anything in the try block raised.  outcome is what create does.
call_llm(prompt, outcome) ==
    <<Call("create", prompt, outcome),
      Call("call_llm", prompt,
           IF outcome.type \in {"str", "NoneType"} THEN outcome ELSE Str(<<>>))>>

\* The parser each render routine hands the response to.
parser_of(routine) ==
    CASE routine = "render_generate_mode" -> "parse_code_generation"
      [] routine = "render_explain_mode"  -> "parse_explanation"
      [] routine = "render_debug_mode"    -> "parse_debug_response"

Parse(routine, response) ==
    CASE routine = "render_generate_mode" -> parse_code_generation(response)
      [] routine = "render_explain_mode"  -> parse_explanation(response)
      [] routine = "render_debug_mode"    -> parse_debug_response(response)

\* if response: parsed = self.parser.parse_...(response)
parse_if_response(routine, response) ==
    IF Truthy(response)
    THEN <<Call(parser_of(routine), response.value,
                Parse(routine, response.value))>>
    ELSE <<>>

\* The rest of a render routine from response = self.call_llm(prompt) on:
\* the calls of call_llm, then the parser when the response is truthy.
respond(routine, called) ==
    called \o parse_if_response(routine, Last(called).ret)

\* What chat.completions.create may do: answer, or raise.
Outcomes == Contents \cup {Raised("Exception")}

\* The provider call ends, and with it call_llm and the render routine.
CallLlm ==
    /\ pc = "calling"
    /\ pc' = "done"
    /\ \E outcome \in Outcomes :
          prior' = prior \o respond(fn, call_llm(ret, outcome))
    /\ ret' = Last(prior').ret
    /\ UNCHANGED <<fn, args>>

NextApp ==
    \/ Run
    \/ CallLlm

SpecApp == Init /\ [][NextApp]_vars

(***************************************************************************)
(* Properties of the parser                                                *)
(***************************************************************************)

\* The positions where pat occurs in s.
Occurrences(s, pat) == {i \in 1..Len(s) : IsAt(s, pat, i)}

\* C1: parse_explanation never drops a paragraph: the details, plus one when
\* the overview is not empty, are as many as the trimmed non-empty
\* paragraphs of the input, also when several paragraphs hold a heading
\* keyword.
NoParagraphDropped ==
    fn = "parse_explanation" =>
        /\ ret.paragraph_count = Len(Paragraphs(args))
        /\ Len(ret.details) + (IF ret.overview # <<>> THEN 1 ELSE 0)
              = ret.paragraph_count

Marker == SubSeq(CodeBlockRemoved, 2, Len(CodeBlockRemoved) - 1)

NoFenceNoCode ==
    (fn = "parse_code_generation" /\ ~Contains(args, Fence)) =>
        /\ ret.has_code = FALSE
        /\ ret.code = <<>>
        /\ ret.explanation = Strip(args)
        /\ ret.has_explanation = (Strip(args) # <<>>)

\* A response without fence, with text between outer whitespace, has been
\* parsed.
NoFenceNoCodeWitness ==
    /\ fn = "parse_code_generation"
    /\ ~Contains(args, Fence)
    /\ args # <<>>
    /\ Head(args) \in Whitespace
    /\ Last(args) \in Whitespace
    /\ ret.has_explanation

\* The response is prose, one fenced block, prose: its backquotes are those
\* of two fence markers, with text that is not blank before, between and
\* after them.
OneBlockBetweenProse(s) ==
    /\ Cardinality({k \in 1..Len(s) : s[k] = Backquote}) = 2 * Len(Fence)
    /\ Cardinality(Occurrences(s, Fence)) >= 2
    /\ LET i == Min(Occurrences(s, Fence))
           j == Max(Occurrences(s, Fence))
       IN  /\ j >= i + Len(Fence)
           /\ Strip(SubSeq(s, 1, i - 1)) # <<>>
           /\ Strip(SubSeq(s, i + Len(Fence), j - 1)) # <<>>
           /\ Strip(From(s, j + Len(Fence))) # <<>>

\* What stands between the two fence markers of such a response.
Inner(s) ==
    SubSeq(s, Min(Occurrences(s, Fence)) + Len(Fence), Max(Occurrences(s, Fence)) - 1)

\* The block B, trimmed, that such a response can be read to hold: all that
\* stands between the fences, or what follows a language tag and its newline.
BlockReadings(s) ==
    LET inner == Inner(s)
        t     == WordRun(inner, 1)
    IN  {Strip(inner)} \cup
        (IF t >= 1 /\ IsAt(inner, <<"\n">>, t + 1)
         THEN {Strip(From(inner, t + 2))} ELSE {})

\* C5: of a response with one fenced block B between prose P1 and P2,
\* parse_code_generation returns the trimmed B as code, has_code true, and an
\* explanation that holds P1 and P2 and no fence, with or without a language
\* tag, and whether or not B starts on a new line.
OneBlockIsCode ==
    (fn = "parse_code_generation" /\ OneBlockBetweenProse(args)) =>
        /\ ret.code \in BlockReadings(args)
        /\ ret.has_code = TRUE
        /\ Contains(ret.explanation,
                    Strip(SubSeq(args, 1, Min(Occurrences(args, Fence)) - 1)))
        /\ Contains(ret.explanation,
                    Strip(From(args, Max(Occurrences(args, Fence)) + Len(Fence))))
        /\ ~Contains(ret.explanation, Fence)

\* C6: clean_response is idempotent: cleaning a cleaned response returns it
\* unchanged.
CleanIsIdempotent ==
    pc = "returned again" => ret = prior.ret

\* A response with outer whitespace, a run of three newlines and a tagged
\* fence followed by a blank line has been cleaned twice.
CleanIsIdempotentWitness ==
    /\ pc = "returned again"
    /\ fn = "clean_response"
    /\ prior.args # <<>>
    /\ Head(prior.args) \in Whitespace
    /\ Contains(prior.args, <<"\n", "\n", "\n">>)
    /\ Contains(prior.args, Fence \o <<"a", "\n", "\n">>)
    /\ Contains(ret, Fence \o <<"a", "\n">>)
    /\ ret = prior.ret

\* C7: on the empty string every parser returns its record of defaults.
EmptyGivesDefaults ==
    (pc = "returned" /\ args = <<>>) =>
        /\ fn = "parse_code_generation" =>
              ret = [code |-> <<>>, explanation |-> <<>>,
                     has_code |-> FALSE, has_explanation |-> FALSE]
        /\ fn = "parse_explanation" =>
              /\ ret.overview = <<>>
              /\ ret.details = <<>>
              /\ ret.paragraph_count = 0
        /\ fn = "parse_debug_response" =>
              /\ ret.problem_description = <<>>
              /\ ret.corrected_code = <<>>
              /\ ret.has_corrected_code = FALSE
              /\ ret.solution_steps = <<>>

\* parse_debug_response has returned from the empty string.
EmptyGivesDefaultsWitness ==
    /\ pc = "returned"
    /\ fn = "parse_debug_response"
    /\ args = <<>>
    /\ ret.solution_steps = <<>>

\* The fence markers of s, counted left to right without overlap.
RECURSIVE FenceCount(_)
FenceCount(s) ==
    IF Len(s) < Len(Fence) THEN 0
    ELSE IF IsAt(s, Fence, 1) THEN 1 + FenceCount(From(s, Len(Fence) + 1))
    ELSE FenceCount(Tail(s))

\* The last fence marker of s opens a block that nothing closes.
Unterminated(s) == FenceCount(s) % 2 = 1

\* The text before, and after, the last fence marker of s.
BeforeLastFence(s) == SubSeq(s, 1, Max(Occurrences(s, Fence)) - 1)

AfterLastFence(s) == From(s, Max(Occurrences(s, Fence)) + Len(Fence))

\* C8: when the last fence of the response is not closed, the text after it
\* stays in the prose (explanation, full_explanation) and no code comes from
\* it: the code is that of the text before the marker.
UnclosedFenceKept ==
    (pc = "returned" /\ fn \in {"parse_code_generation", "parse_debug_response"}
        /\ Unterminated(args)) =>
        /\ fn = "parse_code_generation" =>
              /\ Contains(ret.explanation, Strip(AfterLastFence(args)))
              /\ ret.code = parse_code_generation(BeforeLastFence(args)).code
        /\ fn = "parse_debug_response" =>
              /\ Contains(ret.full_explanation, Strip(AfterLastFence(args)))
              /\ ret.corrected_code =
                    parse_debug_response(BeforeLastFence(args)).corrected_code

\* A response with a closed block, then a fence that nothing closes and
\* text after it, has been parsed.
UnclosedFenceKeptWitness ==
    /\ pc = "returned"
    /\ fn = "parse_debug_response"
    /\ Unterminated(args)
    /\ Len(FindAllCode(args)) = 1
    /\ Strip(AfterLastFence(args)) # <<>>
    /\ Contains(ret.full_explanation, Fence \o Strip(AfterLastFence(args)))

(***************************************************************************)
(* Properties of the prompt builders                                       *)
(***************************************************************************)

\* C9: get_code_generation_prompt returns the preamble followed by exactly
\* one of the three blocks: the Beginner block iff skill_level is
\* "Beginner", the Intermediate block iff it is "Intermediate", and the
\* Advanced block for every other value, the empty string included.
PromptHasOneBlock ==
    fn = "get_code_generation_prompt" =>
        /\ ret.type = "str"
        /\ LET base  == generation_base_prompt(args.task, args.language,
                                               args.skill_level)
               block == From(ret.value, Len(base) + 1)
           IN  /\ SubSeq(ret.value, 1, Len(base)) = base
               /\ block \in {BeginnerRequirements, IntermediateRequirements,
                             AdvancedRequirements}
               /\ block = BeginnerRequirements <=> args.skill_level = Beginner
               /\ block = IntermediateRequirements
                     <=> args.skill_level = Intermediate

\* s ends with the text t.
EndsWith(s, t) == Len(s) >= Len(t) /\ From(s, Len(s) - Len(t) + 1) = t

\* C10: get_debug_prompt returns a prompt, and never fails; the prompt holds
\* the error-message line with the error exactly when the error is not
\* blank, holds no error-message label when it is blank, and ends with the
\* numbered instructions of the skill level.
DebugPromptHasErrorLine ==
    fn = "get_debug_prompt" =>
        /\ ret.type = "str"
        /\ (Strip(args.error) # <<>>)
              <=> Contains(ret.value, <<ErrorLabel>> \o args.error)
        /\ (Strip(args.error) = <<>>) => ~Contains(ret.value, <<ErrorLabel>>)
        /\ EndsWith(ret.value, debug_specific_prompt(args.skill_level))

(***************************************************************************)
(* Properties of the application                                           *)
(***************************************************************************)

Routines == {"render_generate_mode", "render_explain_mode", "render_debug_mode"}

Builders == {"get_code_generation_prompt", "get_explanation_prompt",
             "get_debug_prompt"}

Parsers == {"parse_code_generation", "parse_explanation",
            "parse_debug_response"}

\* C11: in every request a model call that raises gives call_llm the result
\* "", and once call_llm has returned an empty result no parser is called in
\* that request, in generate, explain or debug mode.
EmptyResultIsNotParsed ==
    \A k \in 1..Len(prior) :
        /\ (prior[k].fn = "create" /\ prior[k].ret.type = "Exception") =>
              /\ k < Len(prior)
              /\ prior[k + 1].fn = "call_llm"
              /\ prior[k + 1].ret = Str(<<>>)
        /\ (prior[k].fn = "call_llm" /\ prior[k].ret = Str(<<>>)) =>
              \A j \in (k + 1)..Len(prior) : prior[j].fn \notin Parsers

\* A debug request whose model call raised has ended: call_llm returned ""
\* and that was the last call of the request.
EmptyResultIsNotParsedWitness ==
    /\ pc = "done"
    /\ fn = "render_debug_mode"
    /\ \E k \in 1..Len(prior) :
          prior[k].fn = "create" /\ prior[k].ret = Raised("Exception")
    /\ Last(prior).fn = "call_llm"
    /\ Last(prior).ret = Str(<<>>)

\* The prompt builder each render routine calls.
builder_of(routine) ==
    CASE routine = "render_generate_mode" -> "get_code_generation_prompt"
      [] routine = "render_explain_mode"  -> "get_explanation_prompt"
      [] routine = "render_debug_mode"    -> "get_debug_prompt"

\* The button was pressed and the input checks of the routine passed.
Accepted ==
    /\ args.clicked
    /\ fn = "render_generate_mode" =>
          validate_user_input(args.text, args.language, args.skill_level).is_valid
    /\ fn \in {"render_explain_mode", "render_debug_mode"} =>
          Strip(args.text) # <<>>

IsStep(call) == call.fn \in Builders \cup {"create"} \cup Parsers

\* The prompt constructions, model calls and parser calls of the request so
\* far, in the order they were made.
Steps == SelectSeq(prior, IsStep)

\* C12: an action that passes the input checks builds the prompt first, then
\* makes exactly one model call, with that prompt, and parses, if it does,
\* only after that call has returned and with the parser of its mode; an
\* action the input checks reject makes none of the three steps.
StepsInOrder ==
    fn \in Routines =>
        IF ~Accepted THEN Steps = <<>>
        ELSE /\ Len(Steps) >= 1
             /\ Steps[1].fn = builder_of(fn)
             /\ pc = "calling" => (Len(Steps) = 1 /\ ret = Steps[1].ret)
             /\ pc = "done" =>
                   /\ Len(Steps) \in {2, 3}
                   /\ Steps[2].fn = "create"
                   /\ Steps[2].args = Steps[1].ret
                   /\ Len(Steps) = 3 =>
                         /\ Steps[3].fn = parser_of(fn)
                         /\ Steps[3].args = Steps[2].ret.value

\* A generate request has passed the input check and ended with its three
\* steps made: the prompt, one model call with it, the parse of the answer.
StepsInOrderWitness ==
    /\ pc = "done"
    /\ fn = "render_generate_mode"
    /\ Accepted
    /\ Len(Steps) = 3
    /\ Steps[1].ret.type = "str"
    /\ Steps[2].args = Steps[1].ret
    /\ Steps[3].fn = "parse_code_generation"
    /\ Steps[3].ret.has_code

\* C13: for every mode render_mode_selection can return, one per option
\* offered, run() calls a render routine: no run ends with no routine
\* called.
EveryModeHasRoutine ==
    pc \in {"calling", "done"} => fn \in Routines

=============================================================================
